---- MODULE Spec2Model ----
(***************************************************************************)
(* Model of hour_tracking_27082025.py: the "Log Your Hours" form           *)
(* (HourTrackerApp.log_hours), the per-employee CSV files it appends to,   *)
(* and the manager dashboard (HourTrackerApp.show_dashboard, draw_charts)  *)
(* that reads every *_hours.csv file back through pandas.                  *)
(*                                                                         *)
(* Text is modelled as a sequence of one-character strings, so that strip, *)
(* replace, lower and the NFD/ASCII folding of get_employee_filename are   *)
(* computed.  A date typed in the form is the sequence of its '-'          *)
(* separated numeric fields; a date on disk is the ISO sequence            *)
(* <<yyyy, mm, dd>>; a pandas Timestamp is a proleptic Gregorian ordinal.  *)
(* A float is a record [nan, v] with v counted in tenths of an hour.       *)
(***************************************************************************)
EXTENDS Integers, Sequences, FiniteSets, TLC

VARIABLES
    storage,            \* DATA_FOLDER: file name -> file content
    existing_names,     \* self.existing_names
    msg,                \* kind of the last messagebox shown ("none" at start)
    calls,              \* history: the rows written by successful log_hours calls
    total_hours_label,  \* self.total_hours_label
    person_tree,        \* rows of self.person_tree
    subject_tree,       \* rows of self.subject_tree
    chart,              \* the weekly bar chart in self.charts_frame
    master_df,          \* the merged table handed to draw_charts
    listing,            \* the files the last refresh read, in listing order
    outcome             \* how the last show_dashboard call ended ("none" at start)

vars == <<storage, existing_names, msg, calls, total_hours_label,
          person_tree, subject_tree, chart, master_df, listing, outcome>>

dash == <<total_hours_label, person_tree, subject_tree, chart, master_df>>

----------------------------------------------------------------------------
(* Bounds of the model *)

MaxCalls == 3

MaxUnits == 2

----------------------------------------------------------------------------
(* Text: a sequence of characters.  "e_acute" stands for the one character  *)
(* U+00E9, which NFD decomposes into "e" and a combining accent.            *)

Code(c) ==
    CASE c = " " -> 32
      [] c = "A" -> 65
      [] c = "B" -> 66
      [] c = "N" -> 78
      [] c = "a" -> 97
      [] c = "b" -> 98
      [] c = "e" -> 101
      [] c = "n" -> 110
      [] c = "e_acute" -> 233
      [] OTHER -> 0

RECURSIVE SeqLess(_, _)
SeqLess(s, t) ==
    IF s = <<>> THEN t # <<>>
    ELSE IF t = <<>> THEN FALSE
    ELSE IF Code(Head(s)) # Code(Head(t)) THEN Code(Head(s)) < Code(Head(t))
    ELSE SeqLess(Tail(s), Tail(t))

RECURSIVE LStrip(_)
LStrip(s) == IF s # <<>> /\ Head(s) = " " THEN LStrip(Tail(s)) ELSE s

RECURSIVE RStrip(_)
RStrip(s) ==
    IF s # <<>> /\ s[Len(s)] = " " THEN RStrip(SubSeq(s, 1, Len(s) - 1)) ELSE s

Strip(s) == RStrip(LStrip(s))

LowerChar(c) ==
    CASE c = "A" -> "a"
      [] c = "B" -> "b"
      [] c = "N" -> "n"
      [] OTHER -> c

\* unicodedata.normalize('NFD', c).encode('ascii', 'ignore'): the base letter
\* of a decomposable character survives, its combining mark is dropped.
NfdAscii(c) ==
    CASE c = "e_acute" -> <<"e">>
      [] OTHER -> <<c>>

\* unicodedata.normalize('NFD', name).encode('ascii', 'ignore').decode('ascii')
RECURSIVE AsciiName(_)
AsciiName(s) == IF s = <<>> THEN <<>> ELSE NfdAscii(Head(s)) \o AsciiName(Tail(s))

\* str.replace(" ", "_")
RECURSIVE ReplaceSpaces(_)
ReplaceSpaces(s) ==
    IF s = <<>> THEN <<>>
    ELSE <<IF Head(s) = " " THEN "_" ELSE Head(s)>> \o ReplaceSpaces(Tail(s))

\* str.lower()
RECURSIVE Lower(_)
Lower(s) == IF s = <<>> THEN <<>> ELSE <<LowerChar(Head(s))>> \o Lower(Tail(s))

get_employee_filename(name) ==
    LET ascii_name == AsciiName(name)
        safe_filename_base == Lower(ReplaceSpaces(Strip(ascii_name)))
    IN  safe_filename_base \o <<"_hours.csv">>

----------------------------------------------------------------------------
(* Dates *)

IsLeap(y) == (y % 4 = 0) /\ ((y % 100 # 0) \/ (y % 400 = 0))

DaysInMonth(y, m) ==
    CASE m \in {1, 3, 5, 7, 8, 10, 12} -> 31
      [] m \in {4, 6, 9, 11} -> 30
      [] OTHER -> IF IsLeap(y) THEN 29 ELSE 28

RECURSIVE DaysBeforeMonth(_, _)
DaysBeforeMonth(y, m) ==
    IF m = 1 THEN 0 ELSE DaysBeforeMonth(y, m - 1) + DaysInMonth(y, m - 1)

DaysBeforeYear(y) ==
    LET p == y - 1 IN p * 365 + (p \div 4) - (p \div 100) + (p \div 400)

\* datetime.toordinal
Ordinal(y, m, d) == DaysBeforeYear(y) + DaysBeforeMonth(y, m) + d

\* datetime.weekday: Monday is 0
Weekday(ord) == (ord + 6) % 7

\* datetime.strptime(date_str, "%d-%m-%Y"): ok is FALSE for a ValueError
Strptime(date_str) ==
    IF Len(date_str) # 3 THEN [ok |-> FALSE, y |-> 0, m |-> 0, d |-> 0]
    ELSE LET d == date_str[1]
             m == date_str[2]
             y == date_str[3]
         IN  IF /\ y \in 1..9999
                /\ m \in 1..12
                /\ d >= 1
                /\ d <= DaysInMonth(y, m)
             THEN [ok |-> TRUE, y |-> y, m |-> m, d |-> d]
             ELSE [ok |-> FALSE, y |-> 0, m |-> 0, d |-> 0]

\* date_obj.strftime("%Y-%m-%d")
Strftime(date_obj) == <<date_obj.y, date_obj.m, date_obj.d>>

\* Timestamp.strftime('%Y-%m-%d') of an ordinal: the year, then the month,
\* then the day the ordinal falls in
FromOrdinal(ord) ==
    LET y0 == ((ord - 1) * 400) \div 146097
        y == CHOOSE t \in y0 .. y0 + 2 :
                 DaysBeforeYear(t) < ord /\ ord <= DaysBeforeYear(t + 1)
        rest == ord - DaysBeforeYear(y)
        m == CHOOSE t \in 1..12 :
                 /\ DaysBeforeMonth(y, t) < rest
                 /\ rest <= DaysBeforeMonth(y, t) + DaysInMonth(y, t)
    IN  <<y, m, rest - DaysBeforeMonth(y, m)>>

----------------------------------------------------------------------------
(* Floats *)

NaN == [nan |-> TRUE, v |-> 0]

Num(n) == [nan |-> FALSE, v |-> n]

\* x <= 0 on floats: every comparison with NaN is False
LeZero(x) == ~x.nan /\ x.v <= 0

IsDigit(c) == c \in {"0", "1", "2", "3", "4", "5", "6", "7", "8", "9"}

DigitVal(c) ==
    CASE c = "0" -> 0 [] c = "1" -> 1 [] c = "2" -> 2 [] c = "3" -> 3
      [] c = "4" -> 4 [] c = "5" -> 5 [] c = "6" -> 6 [] c = "7" -> 7
      [] c = "8" -> 8 [] OTHER -> 9

RECURSIVE DigitsVal(_)
DigitsVal(s) ==
    IF s = <<>> THEN 0
    ELSE DigitsVal(SubSeq(s, 1, Len(s) - 1)) * 10 + DigitVal(s[Len(s)])

AllDigits(s) == s # <<>> /\ \A i \in 1..Len(s) : IsDigit(s[i])

\* float(hours_str) for an optional sign, digits and at most one decimal, or
\* "nan" in any case; ok is FALSE for a ValueError.  The value is in tenths.
Float(hours_str) ==
    LET low == Lower(hours_str)
        signed == low # <<>> /\ Head(low) \in {"-", "+"}
        sign == IF signed /\ Head(low) = "-" THEN -1 ELSE 1
        body == IF signed THEN Tail(low) ELSE low
        n == Len(body)
    IN  IF body = <<"n", "a", "n">> THEN [ok |-> TRUE, val |-> NaN]
        ELSE IF AllDigits(body)
             THEN [ok |-> TRUE, val |-> Num(sign * DigitsVal(body) * 10)]
        ELSE IF /\ n >= 3
                /\ body[n - 1] = "."
                /\ AllDigits(SubSeq(body, 1, n - 2))
                /\ IsDigit(body[n])
             THEN [ok |-> TRUE,
                   val |-> Num(sign * (DigitsVal(SubSeq(body, 1, n - 2)) * 10
                                       + DigitVal(body[n])))]
        ELSE [ok |-> FALSE, val |-> NaN]

----------------------------------------------------------------------------
(* Files: a file is [ok, lines]; ok is FALSE when its bytes are not UTF-8. *)
(* A line is [hdr, cells]: the header line holds the column names, a data  *)
(* line holds one text cell per column.                                    *)

SUBJECT_OPTIONS ==
    <<"Technical Work", "Meetings", "Data Annotation", "Documentation",
      "Training Models">>

CSV_HEADER == <<"name", "date", "hours", "subject">>

HeaderLine(cols) == [hdr |-> TRUE, cells |-> cols]

DataLine(cells) == [hdr |-> FALSE, cells |-> cells]

TextFile(lines) == [ok |-> TRUE, lines |-> lines]

\* A writer that puts the header before every row
HeaderAlways(file_exists) == <<HeaderLine(CSV_HEADER)>>

\* writer.writerow(CSV_HEADER) when the file did not exist
HeaderIfNew(file_exists) ==
    IF file_exists THEN <<>> ELSE <<HeaderLine(CSV_HEADER)>>

\* open(filename, 'a') followed by the writerow calls
AppendRow(st, filename, row) ==
    LET file_exists == filename \in DOMAIN st
        old == IF file_exists THEN st[filename].lines ELSE <<>>
        new == TextFile(old \o HeaderIfNew(file_exists) \o <<DataLine(row)>>)
    IN  [f \in DOMAIN st \cup {filename} |-> IF f = filename THEN new ELSE st[f]]

\* self.existing_names.sort()
SortNames(names) == SortSeq(names, SeqLess)

InSeq(x, s) == \E i \in 1..Len(s) : s[i] = x

\* A list that takes the name of every successful call
AddNameAlways(names, name) == SortNames(Append(names, name))

\* lines 167-170
AddName(names, name) ==
    IF InSeq(name, names) THEN names ELSE SortNames(Append(names, name))

----------------------------------------------------------------------------
(* pandas: read_csv, concat, to_datetime, groupby, resample *)

\* The default na_values of read_csv that the cells of the model can spell
NaTexts == { <<>>, <<"N", "A">>, <<"n", "a", "n">> }

NaSubjects == { "", "NA", "nan" }

NaText == [na |-> TRUE, s |-> <<>>]

NaSubject == [na |-> TRUE, s |-> ""]

NaDate == [na |-> TRUE, bad |-> FALSE, iso |-> <<>>]

ColIndex(columns, c) ==
    IF \E i \in 1..Len(columns) : columns[i] = c
    THEN CHOOSE i \in 1..Len(columns) : columns[i] = c
    ELSE 0

HasCol(columns, c) == ColIndex(columns, c) # 0

\* One parsed row.  A column the file does not have is NaN, which is what
\* pd.concat fills in when another file has the column.  A header line met
\* where a data line is expected is text in every column: bad marks a date
\* cell that is not a date.
ParseLine(columns, line) ==
    IF line.hdr
    THEN [name |-> [na |-> FALSE, s |-> <<"n", "a", "m", "e">>],
          date |-> [na |-> FALSE, bad |-> TRUE, iso |-> <<>>],
          hours |-> NaN,
          subject |-> [na |-> FALSE, s |-> "subject"]]
    ELSE LET cell(c) == line.cells[ColIndex(columns, c)]
         IN  [name |-> IF ~HasCol(columns, "name") \/ cell("name") \in NaTexts
                       THEN NaText
                       ELSE [na |-> FALSE, s |-> cell("name")],
              date |-> IF ~HasCol(columns, "date") \/ cell("date") = <<>>
                       THEN NaDate
                       ELSE [na |-> FALSE, bad |-> FALSE, iso |-> cell("date")],
              hours |-> IF ~HasCol(columns, "hours") THEN NaN ELSE cell("hours"),
              subject |-> IF \/ ~HasCol(columns, "subject")
                             \/ cell("subject") \in NaSubjects
                          THEN NaSubject
                          ELSE [na |-> FALSE, s |-> cell("subject")]]

\* pd.read_csv(full_path, encoding='utf-8'): raised for a UnicodeDecodeError
\* (bytes that are not UTF-8) and for an EmptyDataError (no line at all).  A
\* first line that is not a header gives column labels that are none of the
\* four names.
ReadCsv(file) ==
    IF ~file.ok \/ file.lines = <<>>
    THEN [raised |-> TRUE, columns |-> <<>>, rows |-> <<>>]
    ELSE LET head == file.lines[1]
             columns == IF head.hdr THEN head.cells ELSE <<>>
             body == Tail(file.lines)
         IN  [raised |-> FALSE,
              columns |-> columns,
              rows |-> [i \in 1..Len(body) |-> ParseLine(columns, body[i])]]

\* A read loop that stops at the first file whose read raises
RECURSIVE ReadAllAbort(_, _, _)
ReadAllAbort(st, file_list, i) ==
    IF i > Len(file_list) THEN <<>>
    ELSE LET df == ReadCsv(st[file_list[i]])
         IN  IF df.raised THEN <<>>
             ELSE IF df.rows # <<>>
                  THEN <<df>> \o ReadAllAbort(st, file_list, i + 1)
                  ELSE ReadAllAbort(st, file_list, i + 1)

\* lines 225-231: the frames appended to all_data, in listing order.  A file
\* whose read raises is reported in a warning and the loop goes on; a frame
\* without rows (df.empty) is not appended.
RECURSIVE ReadAll(_, _, _)
ReadAll(st, file_list, i) ==
    IF i > Len(file_list) THEN <<>>
    ELSE LET df == ReadCsv(st[file_list[i]])
         IN  IF df.raised THEN ReadAll(st, file_list, i + 1)
             ELSE IF df.rows # <<>>
                  THEN <<df>> \o ReadAll(st, file_list, i + 1)
                  ELSE ReadAll(st, file_list, i + 1)

\* pd.concat(all_data, ignore_index=True): the rows in order, the union of
\* the columns
RECURSIVE ConcatRows(_)
ConcatRows(all_data) ==
    IF all_data = <<>> THEN <<>>
    ELSE Head(all_data).rows \o ConcatRows(Tail(all_data))

ConcatColumns(all_data) ==
    { c \in { CSV_HEADER[k] : k \in 1..Len(CSV_HEADER) } :
        \E i \in 1..Len(all_data) : HasCol(all_data[i].columns, c) }

ValidIso(iso) ==
    /\ Len(iso) = 3
    /\ iso[1] \in 1..9999
    /\ iso[2] \in 1..12
    /\ iso[3] >= 1
    /\ iso[3] <= DaysInMonth(iso[1], iso[2])

\* pd.to_datetime on one cell: NaT for NaN
ToDatetime(cell) ==
    IF cell.na THEN [nat |-> TRUE, ord |-> 0]
    ELSE [nat |-> FALSE, ord |-> Ordinal(cell.iso[1], cell.iso[2], cell.iso[3])]

DateRaises(rows) ==
    \E i \in 1..Len(rows) :
        ~rows[i].date.na /\ (rows[i].date.bad \/ ~ValidIso(rows[i].date.iso))

WithTimestamps(rows) ==
    [i \in 1..Len(rows) |->
        [name |-> rows[i].name, date |-> ToDatetime(rows[i].date),
         hours |-> rows[i].hours, subject |-> rows[i].subject]]

\* Series.sum(): NaN is skipped, the empty sum is 0
RECURSIVE SumHours(_)
SumHours(rows) ==
    IF rows = <<>> THEN 0
    ELSE (IF Head(rows).hours.nan THEN 0 ELSE Head(rows).hours.v)
         + SumHours(Tail(rows))

RECURSIVE SetToSeq(_)
SetToSeq(S) ==
    IF S = {} THEN <<>>
    ELSE LET x == CHOOSE x \in S : TRUE IN <<x>> \o SetToSeq(S \ {x})

SubjectRank(s) ==
    CASE s = "Data Annotation" -> 1
      [] s = "Documentation" -> 2
      [] s = "Meetings" -> 3
      [] s = "Technical Work" -> 4
      [] s = "Training Models" -> 5
      [] OTHER -> 6

SubjectLess(a, b) == SubjectRank(a) < SubjectRank(b)

\* The keys groupby keeps: a NaN key is dropped (dropna=True is the default)
PersonKeys(rows) == { rows[i].name.s : i \in { j \in 1..Len(rows) : ~rows[j].name.na } }

SubjectKeys(rows) ==
    { rows[i].subject.s : i \in { j \in 1..Len(rows) : ~rows[j].subject.na } }

\* master_df.groupby('name')['hours'].sum().reset_index(): sorted by key
HoursByPerson(rows) ==
    LET keys == SortSeq(SetToSeq(PersonKeys(rows)), SeqLess)
    IN  [k \in 1..Len(keys) |->
            [key |-> keys[k],
             hours |-> SumHours(SelectSeq(rows,
                          LAMBDA r : ~r.name.na /\ r.name.s = keys[k]))]]

\* master_df.groupby('subject')['hours'].sum().reset_index()
HoursBySubject(rows) ==
    LET keys == SortSeq(SetToSeq(SubjectKeys(rows)), SubjectLess)
    IN  [k \in 1..Len(keys) |->
            [key |-> keys[k],
             hours |-> SumHours(SelectSeq(rows,
                          LAMBDA r : ~r.subject.na /\ r.subject.s = keys[k]))]]

\* ts - Week(weekday=0): a Monday goes back a full week, any other day goes
\* back to the Monday before it
MinusWeek(ord) == ord - (IF Weekday(ord) = 0 THEN 7 ELSE Weekday(ord))

\* ts + Week(weekday=0): the first Monday after ts
PlusWeek(ord) == ord + (7 - Weekday(ord))

\* The bin a timestamp falls in, given the edges: resample('W-MON') closes
\* its bins on the right, so a bin holds its right edge and not its left one
InBin(ord, left, right) == left < ord /\ ord <= right

\* The label resample gives the bin between two edges (label='left')
BinLabel(left, right) == left

IntLess(a, b) == a < b

\* A resample that kept only the bins that hold a record
WeeklyBinsNoFill(ords) ==
    LET lefts == SortSeq(SetToSeq({ MinusWeek(o) : o \in ords }), IntLess)
    IN  [k \in 1..Len(lefts) |-> [left |-> lefts[k], right |-> lefts[k] + 7]]

\* The bins of resample('W-MON') over the timestamps ords (not empty): the
\* edges are the Mondays from min - Week to max + Week, the last edge is
\* dropped when the one before it already covers the maximum, and every two
\* neighbouring edges make a bin, whether a timestamp falls in it or not.
WeeklyBins(ords) ==
    LET lo == CHOOSE o \in ords : \A q \in ords : o <= q
        hi == CHOOSE o \in ords : \A q \in ords : q <= o
        first == MinusWeek(lo)
        last == PlusWeek(hi)
        n0 == (last - first) \div 7 + 1
        edge(i) == first + 7 * (i - 1)
        n == IF edge(n0 - 1) >= hi THEN n0 - 1 ELSE n0
    IN  [i \in 1..(n - 1) |-> [left |-> edge(i), right |-> edge(i + 1)]]

\* master_df.set_index('date').resample('W-MON', label='left')['hours'].sum()
\* followed by index.strftime('%Y-%m-%d').  Rows whose date is NaT are in no
\* bin and reach no sum.
WeeklyHours(rows) ==
    LET dated == SelectSeq(rows, LAMBDA r : ~r.date.nat)
        ords == { dated[i].date.ord : i \in 1..Len(dated) }
        bins == IF ords = {} THEN <<>> ELSE WeeklyBins(ords)
    IN  [i \in 1..Len(bins) |->
            [weekStart |-> FromOrdinal(BinLabel(bins[i].left, bins[i].right)),
             hours |-> SumHours(SelectSeq(dated,
                 LAMBDA r : InBin(r.date.ord, bins[i].left, bins[i].right)))]]

----------------------------------------------------------------------------
(* The form: what the operator may have typed or selected *)

NameInputs == { <<" ">>, <<"A">>, <<"e">>, <<" ", "e_acute">> }

DateInputs == { <<31, 2, 2025>>, <<6, 1, 2025>>, <<28, 1, 2025>> }

HoursInputs == { <<"x">>, <<"0">>, <<" ", "2">>, <<"n", "a", "n">> }

SubjectInputs == { SUBJECT_OPTIONS[2] }

\* HourTrackerApp.log_hours; io_ok is FALSE when open() raises IOError
log_hours(name_in, date_in, hours_in, subject, io_ok) ==
    LET name == Strip(name_in)
        date_str == date_in
        hours_str == Strip(hours_in)
        date_obj == Strptime(date_str)
        parsed == Float(hours_str)
        hours == parsed.val
        filename == get_employee_filename(name)
        date_to_save == Strftime(date_obj)
        row == <<name, date_to_save, hours, subject>>
    IN  /\ Len(calls) < MaxCalls
        /\ UNCHANGED <<dash, listing, outcome>>
        /\ IF name = <<>> \/ date_str = <<>> \/ hours_str = <<>> \/ subject = ""
           THEN /\ msg' = "error: all fields are required"
                /\ UNCHANGED <<storage, existing_names, calls>>
           ELSE IF ~date_obj.ok
           THEN /\ msg' = "error: invalid date format"
                /\ UNCHANGED <<storage, existing_names, calls>>
           ELSE IF ~parsed.ok
           THEN /\ msg' = "error: hours must be a valid number"
                /\ UNCHANGED <<storage, existing_names, calls>>
           ELSE IF LeZero(hours)
           THEN /\ msg' = "error: hours must be a positive number"
                /\ UNCHANGED <<storage, existing_names, calls>>
           ELSE IF ~io_ok
           THEN /\ msg' = "error: could not write to file"
                /\ UNCHANGED <<storage, existing_names, calls>>
           ELSE /\ storage' = AppendRow(storage, filename, row)
                /\ existing_names' = AddName(existing_names, name)
                /\ calls' = Append(calls, [file |-> filename, row |-> row])
                /\ msg' = "info: success"

LogHours ==
    \E name_in \in NameInputs, date_in \in DateInputs, hours_in \in HoursInputs,
       subject \in SubjectInputs, io_ok \in BOOLEAN :
        log_hours(name_in, date_in, hours_in, subject, io_ok)

----------------------------------------------------------------------------
(* The manager dashboard *)

NoLabel == [shown |-> FALSE, value |-> 0]

Orders(S) ==
    { o \in [1..Cardinality(S) -> S] :
        \A i, j \in 1..Cardinality(S) : o[i] = o[j] => i = j }

AnyReadRaised(st, file_list) ==
    \E i \in 1..Len(file_list) : ReadCsv(st[file_list[i]]).raised

\* Whether lines 238-242 raise: a KeyError for a column no file has, a
\* ValueError for a date cell that is not a date.  Nothing of the dashboard
\* has been updated when they do.
AggregationRaises(columns, raw) ==
    \/ "date" \notin columns
    \/ DateRaises(raw)
    \/ "hours" \notin columns
    \/ "name" \notin columns
    \/ "subject" \notin columns

\* HourTrackerApp.show_dashboard, with the draw_charts call it ends in;
\* file_list is the listing of the data folder, in the order os.listdir gives
show_dashboard(file_list) ==
    LET all_data == ReadAll(storage, file_list, 1)
        columns == ConcatColumns(all_data)
        raw == ConcatRows(all_data)
        rows == WithTimestamps(raw)
        warned == IF AnyReadRaised(storage, file_list)
                  THEN "warning: file read error" ELSE msg
    IN  /\ listing' = [i \in 1..Len(file_list) |->
                          [file |-> file_list[i], content |-> storage[file_list[i]]]]
        /\ UNCHANGED <<storage, existing_names, calls>>
        /\ IF file_list = <<>>
           THEN /\ msg' = "info: no project data files found"
                /\ outcome' = "no_files"
                /\ UNCHANGED dash
           ELSE IF all_data = <<>>
           THEN /\ msg' = "info: no valid data found"
                /\ outcome' = "no_valid"
                /\ UNCHANGED dash
           ELSE IF AggregationRaises(columns, raw)
           THEN /\ msg' = warned
                /\ outcome' = "raised"
                /\ UNCHANGED dash
           ELSE /\ msg' = warned
                /\ outcome' = "rendered"
                /\ master_df' = rows
                /\ total_hours_label' = [shown |-> TRUE, value |-> SumHours(rows)]
                /\ person_tree' = HoursByPerson(rows)
                /\ subject_tree' = HoursBySubject(rows)
                /\ chart' = WeeklyHours(rows)

ShowDashboard == \E file_list \in Orders(DOMAIN storage) : show_dashboard(file_list)

----------------------------------------------------------------------------
(* Construction *)

EmptyStorage == [f \in {} |-> TextFile(<<>>)]

\* The float NaN as an element of existing_names
NanName == <<"float nan">>

\* The names _get_existing_names collects: df['name'].unique() of every file
\* that reads, has rows and has a name column
CollectedNames(st) ==
    UNION { LET df == ReadCsv(st[f])
            IN  IF ~df.raised /\ df.rows # <<>> /\ HasCol(df.columns, "name")
                THEN { IF df.rows[i].name.na THEN NanName ELSE df.rows[i].name.s :
                         i \in 1..Len(df.rows) }
                ELSE {} : f \in DOMAIN st }

\* sorted(list(names)) raises a TypeError when it has to compare a float NaN
\* with a str: the application then does not start
GetExistingNamesRaises(st) ==
    NanName \in CollectedNames(st) /\ CollectedNames(st) # {NanName}

\* HourTrackerApp._get_existing_names
GetExistingNames(st) == SortSeq(SetToSeq(CollectedNames(st)), SeqLess)

\* The state after HourTrackerApp.__init__ over the data folder st
Constructed(st) ==
    /\ ~GetExistingNamesRaises(st)
    /\ storage = st
    /\ existing_names = GetExistingNames(st)
    /\ msg = "none"
    /\ calls = <<>>
    /\ total_hours_label = NoLabel
    /\ person_tree = <<>>
    /\ subject_tree = <<>>
    /\ chart = <<>>
    /\ master_df = <<>>
    /\ listing = <<>>
    /\ outcome = "none"

\* The application started in a new, empty data folder
Init == Constructed(EmptyStorage)

Next == LogHours

Spec == Init /\ [][Next]_vars

----------------------------------------------------------------------------
(* The dashboard over a data folder that holds files already: the files a  *)
(* refresh may find, and their removal between two refreshes.              *)

UnitNames == <<"a", "b", "c", "d", "e">>

UnitFiles == { get_employee_filename(<<UnitNames[i]>>) : i \in 1..MaxUnits }

Table(columns, rows) ==
    TextFile(<<HeaderLine(columns)>> \o [i \in 1..Len(rows) |-> DataLine(rows[i])])

Without(c) == SelectSeq(CSV_HEADER, LAMBDA h : h # c)

\* A record as log_hours writes it, cut down to the columns of the file
Cells(columns, name, iso, tenths, subject) ==
    [k \in 1..Len(columns) |->
        CASE columns[k] = "name" -> name
          [] columns[k] = "date" -> iso
          [] columns[k] = "hours" -> Num(tenths)
          [] OTHER -> subject]

UnitPool ==
    { [ok |-> FALSE, lines |-> <<>>],
      TextFile(<<>>),
      Table(CSV_HEADER, <<>>),
      Table(CSV_HEADER,
            << Cells(CSV_HEADER, <<"A">>, <<2025, 1, 6>>, 30, "Meetings"),
               Cells(CSV_HEADER, <<"A">>, <<2025, 1, 8>>, 20, "Meetings") >>),
      Table(CSV_HEADER,
            << Cells(CSV_HEADER, <<"B">>, <<2025, 1, 6>>, 50, "Technical Work") >>),
      Table(CSV_HEADER,
            << Cells(CSV_HEADER, <<"B">>, <<2025, 1, 28>>, 10, "Meetings") >>),
      Table(CSV_HEADER,
            << Cells(CSV_HEADER, <<>>, <<2025, 1, 7>>, 20, "Meetings") >>),
      Table(CSV_HEADER,
            << Cells(CSV_HEADER, <<"A">>, <<2025, 1, 13>>, 10, "") >>) }
    \cup { Table(Without(c),
                 << Cells(Without(c), <<"A">>, <<2025, 1, 7>>, 10, "Meetings") >>) :
             c \in { CSV_HEADER[k] : k \in 1..Len(CSV_HEADER) } }

Storages == UNION { [F -> UnitPool] : F \in SUBSET UnitFiles }

DashInit == \E st \in Storages : Constructed(st)

\* A file of the data folder is deleted while the application runs
StorageRemoved ==
    \E f \in DOMAIN storage :
        /\ storage' = [g \in DOMAIN storage \ {f} |-> storage[g]]
        /\ UNCHANGED <<existing_names, msg, calls, dash, listing, outcome>>

DashNext == ShowDashboard \/ StorageRemoved

DashSpec == DashInit /\ [][DashNext]_vars

----------------------------------------------------------------------------
(* Properties *)

RECURSIVE SumOf(_)
SumOf(entries) ==
    IF entries = <<>> THEN 0 ELSE Head(entries).hours + SumOf(Tail(entries))

DatedRows(df) == SelectSeq(df, LAMBDA r : ~r.date.nat)

\* The Monday on or before a day: the start of its Monday-to-Sunday week
MondayOnOrBefore(ord) == ord - Weekday(ord)

EntryOrd(e) == Ordinal(e.weekStart[1], e.weekStart[2], e.weekStart[3])

HoldsRecord(df, e) ==
    \E i \in 1..Len(df) :
        ~df[i].date.nat /\ InBin(df[i].date.ord, EntryOrd(e), EntryOrd(e) + 7)

UnitRaises(u) == ReadCsv(u.content).raised

UnitComplete(u) ==
    /\ ~UnitRaises(u)
    /\ \A k \in 1..Len(CSV_HEADER) : HasCol(ReadCsv(u.content).columns, CSV_HEADER[k])

RECURSIVE RowsOfComplete(_)
RowsOfComplete(units) ==
    IF units = <<>> THEN <<>>
    ELSE (IF UnitComplete(Head(units)) THEN ReadCsv(Head(units).content).rows ELSE <<>>)
         \o RowsOfComplete(Tail(units))

\* C1: every dated record of the merged table is counted in the entry of the
\* weekly series labelled with the Monday on or before its date, and that
\* entry's hours are the hours of the records of that Monday-to-Sunday week.
C1_LabelIsMondayOnOrBefore ==
    \A i \in 1..Len(master_df) :
        ~master_df[i].date.nat =>
            \E k \in 1..Len(chart) :
                /\ chart[k].weekStart
                     = FromOrdinal(MondayOnOrBefore(master_df[i].date.ord))
                /\ chart[k].hours
                     = SumHours(SelectSeq(DatedRows(master_df),
                           LAMBDA r : MondayOnOrBefore(r.date.ord)
                                        = MondayOnOrBefore(master_df[i].date.ord)))

\* C2 as claimed: the weekly series has an entry for a week only if a record
\* falls in that week, and as many entries as there are weeks holding a record
\* (a week being the bin the series itself puts a record in).
C2_OnlyWeeksWithRecords ==
    /\ \A k \in 1..Len(chart) : HoldsRecord(master_df, chart[k])
    /\ Len(chart)
         = Cardinality({ MinusWeek(DatedRows(master_df)[i].date.ord) :
                           i \in 1..Len(DatedRows(master_df)) })

\* C2 as amended: the weekly series has one entry for every weekly bin from
\* the bin of the earliest dated record to the bin of the latest one, seven
\* days apart; an entry's hours are the hours of the records in its bin, so a
\* bin in between that holds no record is present with sum 0.
C2_GapsAreZeroFilled ==
    LET dated == DatedRows(master_df)
        n == Len(chart)
    IN  /\ (dated = <<>>) <=> (chart = <<>>)
        /\ \A k \in 1..(n - 1) : EntryOrd(chart[k + 1]) = EntryOrd(chart[k]) + 7
        /\ \A i \in 1..Len(dated) :
               /\ EntryOrd(chart[1]) < dated[i].date.ord
               /\ dated[i].date.ord <= EntryOrd(chart[n]) + 7
        /\ n > 0 => HoldsRecord(master_df, chart[1]) /\ HoldsRecord(master_df, chart[n])
        /\ \A k \in 1..n :
               chart[k].hours
                 = SumHours(SelectSeq(dated,
                       LAMBDA r : EntryOrd(chart[k]) < r.date.ord
                                  /\ r.date.ord <= EntryOrd(chart[k]) + 7))

\* A rendered series with an entry of sum 0 for a week without any record
C2_Witness ==
    /\ outcome = "rendered"
    /\ \E k \in 1..Len(chart) :
           /\ 1 < k /\ k < Len(chart)
           /\ chart[k].hours = 0
           /\ ~HoldsRecord(master_df, chart[k])

\* C3: the hours by person and the hours by subject each add up to the total
C3_GroupSumsEqualTotal ==
    total_hours_label.shown =>
        /\ SumOf(person_tree) = total_hours_label.value
        /\ SumOf(subject_tree) = total_hours_label.value

\* C4: the hours of the weekly series add up to the total
C4_WeeklySumEqualsTotal ==
    total_hours_label.shown => SumOf(chart) = total_hours_label.value

\* C5: a refresh that met exactly one file whose read raises, all the others
\* being complete tables, did not raise, and built the merged table, the
\* total, both group tables and the weekly series of the other files alone
\* (or reported that there is no valid data when those hold no record).
C5_CorruptUnitSkipped ==
    LET good == RowsOfComplete(listing)
        rows == WithTimestamps(good)
    IN  ( /\ Cardinality({ i \in 1..Len(listing) : UnitRaises(listing[i]) }) = 1
          /\ \A i \in 1..Len(listing) :
                 UnitRaises(listing[i]) \/ UnitComplete(listing[i]) )
        => IF good = <<>>
           THEN outcome = "no_valid"
           ELSE /\ outcome = "rendered"
                /\ master_df = rows
                /\ total_hours_label = [shown |-> TRUE, value |-> SumHours(rows)]
                /\ person_tree = HoursByPerson(rows)
                /\ subject_tree = HoursBySubject(rows)
                /\ chart = WeeklyHours(rows)

\* A rendered refresh whose listing began with the one corrupt file
C5_Witness ==
    /\ outcome = "rendered"
    /\ Len(listing) >= 2
    /\ UnitRaises(listing[1])
    /\ \A i \in 2..Len(listing) : UnitComplete(listing[i])
    /\ master_df # <<>>

\* C6: after a refresh over no file, or over files without any record, the
\* dashboard shows the empty report: total 0, no person, no subject, no week
C6_EmptyRefreshShowsEmptyReport ==
    outcome \in {"no_files", "no_valid"} =>
        /\ total_hours_label.value = 0
        /\ person_tree = <<>>
        /\ subject_tree = <<>>
        /\ chart = <<>>

\* C7: a refresh that met a table lacking one of the four columns did not
\* raise, and none of that table's rows is in the merged table it built
C7_IncompleteUnitRejected ==
    (\E i \in 1..Len(listing) :
        ~UnitRaises(listing[i]) /\ ~UnitComplete(listing[i]))
    => /\ outcome # "raised"
       /\ outcome = "rendered" => master_df = WithTimestamps(RowsOfComplete(listing))

\* C8: every row on disk has hours > 0 and a well-formed date
C8_PersistedRowsValid ==
    \A f \in DOMAIN storage :
        \A i \in 1..Len(storage[f].lines) :
            ~storage[f].lines[i].hdr =>
                /\ ~storage[f].lines[i].cells[3].nan
                /\ storage[f].lines[i].cells[3].v > 0
                /\ ValidIso(storage[f].lines[i].cells[2])

CallsTo(f) == SelectSeq(calls, LAMBDA c : c.file = f)

\* C9: every file starts with the header, holds it nowhere else, and then
\* holds the rows of the successful calls that targeted it, in call order;
\* every targeted file exists
C9_HeaderOnceThenRowsInOrder ==
    /\ \A i \in 1..Len(calls) : calls[i].file \in DOMAIN storage
    /\ \A f \in DOMAIN storage :
           LET lines == storage[f].lines
           IN  /\ storage[f].ok
               /\ Len(lines) = 1 + Len(CallsTo(f))
               /\ lines[1].hdr
               /\ lines[1].cells = CSV_HEADER
               /\ \A i \in 2..Len(lines) :
                      /\ ~lines[i].hdr
                      /\ lines[i].cells = CallsTo(f)[i - 1].row

\* A file that holds the rows of calls made under two different names
C9_Witness ==
    \E f \in DOMAIN storage :
        /\ Len(storage[f].lines) >= 3
        /\ ~storage[f].lines[2].hdr
        /\ ~storage[f].lines[3].hdr
        /\ storage[f].lines[2].cells[1] # storage[f].lines[3].cells[1]

IsError(m) ==
    m \in { "error: all fields are required", "error: invalid date format",
            "error: hours must be a valid number",
            "error: hours must be a positive number",
            "error: could not write to file" }

Sorted(names) ==
    \A i \in 1..(Len(names) - 1) : SeqLess(names[i], names[i + 1])

====
